---- MODULE Spec2Model ----
(***************************************************************************)
(* Deep-research assistant: the research run (job submission, status       *)
(* polling, question/report classification, orchestration of the result)   *)
(* and the template store.                                                 *)
(*                                                                         *)
(* Text is a sequence of tokens; every token stands for a fixed run of     *)
(* characters, so that length, trim() and the question regular expression  *)
(* are computed as the code computes them on the characters:               *)
(*   "?"      one question mark                                            *)
(*   "what"   a question word of the pattern (what|how|...), 4 characters  *)
(*   " "      one blank,  "\n" one newline                                 *)
(*   "x"      one other character                                          *)
(*   "X498"   498 other characters,  "X1998"  1998 other characters        *)
(*   "S2000"  2000 blanks                                                  *)
(*   "{json}" the JSON.stringify dump of a payload                         *)
(* Error messages are token sequences too ("404", "Failed to poll", ...).  *)
(* Durations and the clock are in milliseconds.                            *)
(***************************************************************************)
EXTENDS Integers, Sequences, FiniteSets, TLC

\* ------------------------------------------------------------------ text

TokLen(t) ==
    CASE t = "X498" -> 498
      [] t = "X1998" -> 1998
      [] t = "S2000" -> 2000
      [] t = "what" -> 4
      [] t = "{json}" -> 2
      [] OTHER -> 1

IsSpace(t) == t \in {" ", "\n", "S2000"}

RECURSIVE Length(_)
Length(s) == IF s = <<>> THEN 0 ELSE TokLen(Head(s)) + Length(Tail(s))

RECURSIVE TrimStart(_)
TrimStart(s) ==
    IF s = <<>> THEN <<>>
    ELSE IF IsSpace(Head(s)) THEN TrimStart(Tail(s)) ELSE s

RECURSIVE TrimEnd(_)
TrimEnd(s) ==
    IF s = <<>> THEN <<>>
    ELSE IF IsSpace(s[Len(s)]) THEN TrimEnd(SubSeq(s, 1, Len(s) - 1)) ELSE s

Trim(s) == TrimEnd(TrimStart(s))

\* a || b on strings: the empty string is falsy
OrText(a, b) == IF a # <<>> THEN a ELSE b

\* /[?]|(what|how|when|where|why|which|who|can you|could you|would you|please)\s+/i
questionPatterns(s) ==
    \E i \in 1..Len(s) :
        \/ s[i] = "?"
        \/ s[i] = "what" /\ i < Len(s) /\ IsSpace(s[i + 1])

\* (trimmed.match(/\?/g) || []).length
questionCount(s) == Cardinality({i \in 1..Len(s) : s[i] = "?"})

ShortLimit == 500
ReportLimit == 2000

containsQuestions(text) ==
    IF text = <<>> THEN FALSE
    ELSE LET trimmed == Trim(text) IN
         \/ Length(trimmed) < ShortLimit /\ questionPatterns(trimmed)
         \/ questionCount(trimmed) > 0 /\ Length(trimmed) < ReportLimit

\* error.message?.includes(w)
Includes(msg, w) == \E i \in 1..Len(msg) : msg[i] = w

\* ------------------------------------------------------ payload values

NoContent == [kind |-> "none", str |-> <<>>, parts |-> <<>>]
StrContent(t) == [kind |-> "string", str |-> t, parts |-> <<>>]
PartsContent(ps) == [kind |-> "parts", str |-> <<>>, parts |-> ps]
Part(t, ot) == [text |-> t, output_text |-> ot]
Item(ty, c, t, ot) == [type |-> ty, content |-> c, text |-> t, output_text |-> ot]

NoError == [present |-> FALSE, message |-> <<>>]
ErrorObj(m) == [present |-> TRUE, message |-> m]
NoOutput == [present |-> FALSE, items |-> <<>>]
OutputList(its) == [present |-> TRUE, items |-> its]

\* item.content is truthy: a non-empty string or any array (an empty array too)
ContentTruthy(c) == c.kind = "parts" \/ (c.kind = "string" /\ c.str # <<>>)

RECURSIVE JoinParts(_)
\* content.map(part => part.text || part.output_text || '').join('')
JoinParts(ps) ==
    IF ps = <<>> THEN <<>>
    ELSE OrText(Head(ps).text, Head(ps).output_text) \o JoinParts(Tail(ps))

\* text of a message item's content: joined parts, or the string itself
ContentText(c) ==
    IF c.kind = "parts" THEN JoinParts(c.parts)
    ELSE IF c.kind = "string" THEN c.str ELSE <<>>

\* ------------------------------------------- pollForResult: classification

pollInterval == 3000
CompletedRecheckMs == 2000
DefaultRetryMs == 5000

Throw(m) == [kind |-> "throw", message |-> m, isQuestion |-> FALSE,
             questionText |-> <<>>, delay |-> 0]
Return(q, qt) == [kind |-> "return", message |-> <<>>, isQuestion |-> q,
                  questionText |-> qt, delay |-> 0]
Wait(d) == [kind |-> "wait", message |-> <<>>, isQuestion |-> FALSE,
            questionText |-> <<>>, delay |-> d]

\* data.error?.message || 'Deep research failed'
FailureMessage(data) ==
    IF data.error.present /\ data.error.message # <<>>
    THEN data.error.message
    ELSE <<"Deep research failed">>

\* body of the loop over data.output: the text of an item that contains questions
ItemQuestion(item) ==
    IF item.type = "message" /\ ContentTruthy(item.content)
    THEN IF containsQuestions(ContentText(item.content))
         THEN ContentText(item.content) ELSE <<>>
    ELSE IF item.text # <<>> /\ containsQuestions(item.text)
         THEN item.text ELSE <<>>

RECURSIVE FirstQuestion(_)
\* questionText after the loop: the first item that contains questions (break)
FirstQuestion(items) ==
    IF items = <<>> THEN <<>>
    ELSE IF ItemQuestion(Head(items)) # <<>> THEN ItemQuestion(Head(items))
    ELSE FirstQuestion(Tail(items))

\* the try block of one loop iteration, for a response that is ok
PollBody(data) ==
    IF data.status = "failed" \/ data.error.present
    THEN Throw(FailureMessage(data))
    ELSE IF data.status = "needs_input" \/ data.needs_input
    THEN Return(TRUE, <<>>)
    ELSE LET questionText ==
                 IF data.output.present THEN FirstQuestion(data.output.items)
                 ELSE <<>>
         IN
         IF data.output.present /\ questionText # <<>>
                /\ Length(questionText) < ReportLimit
         THEN Return(TRUE, questionText)
         ELSE IF data.output.present /\ data.status = "completed"
         THEN Return(FALSE, <<>>)
         ELSE IF data.output_text # <<>> /\ containsQuestions(data.output_text)
                    /\ Length(data.output_text) < ReportLimit
         THEN Return(TRUE, data.output_text)
         ELSE IF data.output_text # <<>> /\ data.status = "completed"
                    /\ Length(data.output_text) >= ReportLimit
         THEN Return(FALSE, <<>>)
         ELSE IF data.status = "completed"
         THEN IF ~data.output.present /\ data.output_text = <<>>
              THEN Wait(CompletedRecheckMs)
              ELSE Return(FALSE, <<>>)
         ELSE Wait(pollInterval)

\* a catch block that retries a swallowed error without waiting
PollCatchAtOnce(message) ==
    IF Includes(message, "404") \/ Includes(message, "Failed to poll")
    THEN Wait(0)
    ELSE Throw(message)

\* the catch block of the loop
PollCatch(message) ==
    IF Includes(message, "404") \/ Includes(message, "Failed to poll")
    THEN Wait(pollInterval)
    ELSE Throw(message)

\* parseFloat of a retry_after string (NaN makes setTimeout fire at once)
ParseFloatMs(s) ==
    CASE s = "2.5" -> 2500
      [] s = "1" -> 1000
      [] OTHER -> 0

NoRetryAfter == [kind |-> "none", num |-> 0, str |-> ""]
NumRetryAfter(ms) == [kind |-> "num", num |-> ms, str |-> ""]
StrRetryAfter(s) == [kind |-> "str", num |-> 0, str |-> s]

\* errorData.error?.retry_after || 5, parseFloat if a string, times 1000
PollRetryMs(errorData) ==
    IF errorData.retry_after.kind = "str" /\ errorData.retry_after.str # ""
    THEN ParseFloatMs(errorData.retry_after.str)
    ELSE IF errorData.retry_after.kind = "num" /\ errorData.retry_after.num # 0
    THEN errorData.retry_after.num
    ELSE DefaultRetryMs

\* one loop iteration of pollForResult, from the fetch's completion on
PollStep(resp) ==
    IF resp.kind = "network" THEN PollCatch(<<"Failed to fetch">>)
    ELSE IF resp.kind = "http"
    THEN IF resp.code = 429 THEN Wait(PollRetryMs(resp.errorData))
         ELSE PollCatch(<<"Failed to poll", resp.statusText>>)
    ELSE LET r == PollBody(resp.body) IN
         IF r.kind = "throw" THEN PollCatch(r.message) ELSE r

\* ------------------------------------------ runDeepResearch: submission

\* errorMessage.match(/try again in ([\d.]+)s/)?.[1]
MatchRetry(message) ==
    IF Includes(message, "try again in 2.5s") THEN "2.5" ELSE ""

\* the text the submission check reads from one output item
SubmitItemText(item) ==
    IF item.type = "message" /\ ContentTruthy(item.content)
    THEN ContentText(item.content)
    ELSE IF item.text # <<>> THEN item.text ELSE <<>>

RECURSIVE SubmitQuestion(_)
\* the first item whose text contains questions and is shorter than 2000
SubmitQuestion(items) ==
    IF items = <<>> THEN <<>>
    ELSE LET text == SubmitItemText(Head(items)) IN
         IF text # <<>> /\ containsQuestions(text) /\ Length(text) < ReportLimit
         THEN text ELSE SubmitQuestion(Tail(items))

\* what runDeepResearch does with the submission response:
\* "retry" (wait, submit again), "throw", "return", or "poll"
SubmitStep(resp) ==
    IF resp.kind = "network" THEN Throw(<<"Failed to fetch">>)
    ELSE IF resp.kind = "http"
    THEN LET errorMessage == IF resp.errorData.message # <<>>
                             THEN resp.errorData.message
                             ELSE <<"Failed to run deep research">>
             ra == resp.errorData.retry_after
             hint == MatchRetry(errorMessage)
         IN
         IF resp.code = 429 /\ ra.kind = "num" /\ ra.num # 0
         THEN [Wait(ra.num) EXCEPT !.kind = "retry"]
         ELSE IF resp.code = 429 /\ ra.kind = "str" /\ ra.str # ""
         THEN [Wait(ParseFloatMs(ra.str)) EXCEPT !.kind = "retry"]
         ELSE IF resp.code = 429 /\ hint # ""
         THEN [Wait(ParseFloatMs(hint)) EXCEPT !.kind = "retry"]
         ELSE Throw(errorMessage)
    ELSE LET data == resp.body IN
         IF data.output_text # <<>> /\ containsQuestions(data.output_text)
                /\ Length(data.output_text) < ReportLimit
         THEN Return(TRUE, data.output_text)
         ELSE IF data.output.present /\ SubmitQuestion(data.output.items) # <<>>
         THEN Return(TRUE, SubmitQuestion(data.output.items))
         ELSE IF data.id THEN [Wait(0) EXCEPT !.kind = "poll"]
         ELSE Return(FALSE, <<>>)

\* --------------------------------- startDeepResearch: reading the result

RECURSIVE FirstMessage(_)
\* data.output.find(item => item.type === 'message'): a one-item list, or empty
FirstMessage(items) ==
    IF items = <<>> THEN <<>>
    ELSE IF Head(items).type = "message" THEN <<Head(items)>>
    ELSE FirstMessage(Tail(items))

RECURSIVE ItemsText(_)
\* the fallback loop: each item's text, output_text or string content, + '\n\n'
ItemsText(items) ==
    IF items = <<>> THEN <<>>
    ELSE LET item == Head(items)
             t == IF item.text # <<>> THEN item.text \o <<"\n", "\n">>
                  ELSE IF item.output_text # <<>>
                  THEN item.output_text \o <<"\n", "\n">>
                  ELSE IF item.content.kind = "string" /\ item.content.str # <<>>
                  THEN item.content.str \o <<"\n", "\n">>
                  ELSE <<>>
         IN t \o ItemsText(Tail(items))

\* the text read from an output list: the first message item, else all items
OutputText(items) ==
    LET m == FirstMessage(items)
        fromMessage == IF m # <<>> /\ ContentTruthy(m[1].content)
                       THEN ContentText(m[1].content) ELSE <<>>
    IN IF fromMessage # <<>> THEN fromMessage ELSE ItemsText(items)

\* questionText of the isQuestion branch
QuestionTextOf(data) ==
    IF data.output.present THEN OutputText(data.output.items)
    ELSE IF data.output_text # <<>> THEN data.output_text
    ELSE data.text

\* finalText: the same, with the JSON dump as the last resort
FinalTextOf(data) ==
    IF data.output.present THEN OutputText(data.output.items)
    ELSE IF data.output_text # <<>> THEN data.output_text
    ELSE IF data.text # <<>> THEN data.text
    ELSE <<"{json}">>

EmptyResultMessage == <<"Research completed but no output was generated. Please try again.">>

\* a reading that stores the trimmed text as the report
ReadResultTrimmed(data, isQuestion) ==
    IF data.status = "failed"
    THEN [outcome |-> "failed", text |-> FailureMessage(data)]
    ELSE IF isQuestion /\ Trim(QuestionTextOf(data)) # <<>>
    THEN [outcome |-> "question", text |-> QuestionTextOf(data)]
    ELSE IF Trim(FinalTextOf(data)) = <<>>
    THEN [outcome |-> "failed", text |-> EmptyResultMessage]
    ELSE [outcome |-> "report", text |-> Trim(FinalTextOf(data))]

\* what startDeepResearch makes of the value runDeepResearch returned
ReadResult(data, isQuestion) ==
    IF data.status = "failed"
    THEN [outcome |-> "failed", text |-> FailureMessage(data)]
    ELSE IF isQuestion /\ Trim(QuestionTextOf(data)) # <<>>
    THEN [outcome |-> "question", text |-> QuestionTextOf(data)]
    ELSE IF Trim(FinalTextOf(data)) = <<>>
    THEN [outcome |-> "failed", text |-> EmptyResultMessage]
    ELSE [outcome |-> "report", text |-> FinalTextOf(data)]

\* --------------------------------------------- what the remote service sends

ShortQuestion == <<"what", " ", "x", "?">>
LongReport == <<"X1998", "x", "?">>

\* output_text values: empty, blank, short and long, with and without '?'
TopTexts ==
    { <<>>, <<" ">>, ShortQuestion, <<"what", " ", "x">>, <<"x">>,
      <<"X498", "x", "?">>, <<"X498", "x", "x">>, <<"X1998", "?">>,
      LongReport, <<"X1998", "x", "x">>, <<" ", "X1998", "?">>, <<"S2000">> }

Statuses ==
    {"", "queued", "in_progress", "completed", "failed", "needs_input", "cancelled"}

Errors == {NoError, ErrorObj(<<>>), ErrorObj(<<"boom">>), ErrorObj(<<"error", "404">>)}

Items ==
    { Item("message", PartsContent(<<Part(ShortQuestion, <<>>)>>), <<>>, <<>>),
      Item("message", PartsContent(<<Part(LongReport, <<>>)>>), <<>>, <<>>),
      Item("message", PartsContent(<<Part(<<>>, <<"what", " ">>), Part(<<"x">>, <<"?">>)>>),
           <<>>, <<>>),
      Item("message", PartsContent(<<>>), <<>>, <<>>),
      Item("message", StrContent(ShortQuestion), <<>>, <<>>),
      Item("message", NoContent, ShortQuestion, <<>>),
      Item("reasoning", NoContent, <<>>, <<>>),
      Item("reasoning", NoContent, ShortQuestion, <<>>),
      Item("reasoning", NoContent, <<>>, ShortQuestion),
      Item("reasoning", StrContent(<<"x">>), <<>>, <<>>) }

MaxItems == 2

RECURSIVE ItemLists(_)
\* the output lists of exactly n items
ItemLists(n) ==
    IF n = 0 THEN {<<>>}
    ELSE {Append(l, it) : l \in ItemLists(n - 1), it \in Items}

OutputLists == UNION {ItemLists(n) : n \in 0..MaxItems}

Payload(st, er, ni, out, ot, tx, id) ==
    [status |-> st, error |-> er, needs_input |-> ni, output |-> out,
     output_text |-> ot, text |-> tx, id |-> id]

\* payloads without an output list, and payloads with one
FlatPayloads(ids) ==
    {Payload(st, er, ni, NoOutput, ot, tx, id) :
        st \in Statuses, er \in Errors, ni \in BOOLEAN, ot \in TopTexts,
        tx \in {<<>>, ShortQuestion}, id \in ids}

\* the status and error of the payloads that carry an output list
ListStates ==
    { <<"in_progress", NoError>>, <<"completed", NoError>>, <<"failed", NoError>>,
      <<"completed", ErrorObj(<<"boom">>)>> }

ListPayloads(ids) ==
    {Payload(se[1], se[2], FALSE, OutputList(l), ot, <<>>, id) :
        se \in ListStates, l \in OutputLists,
        ot \in {<<>>, ShortQuestion}, id \in ids}

NoPayload == Payload("", NoError, FALSE, NoOutput, <<>>, <<>>, FALSE)
NoErrorData == [message |-> <<>>, retry_after |-> NoRetryAfter]

Ok(body) == [kind |-> "ok", code |-> 200, statusText |-> "OK",
             errorData |-> NoErrorData, body |-> body]
Http(code, st, msg, ra) ==
    [kind |-> "http", code |-> code, statusText |-> st,
     errorData |-> [message |-> msg, retry_after |-> ra], body |-> NoPayload]
NetworkError == [kind |-> "network", code |-> 0, statusText |-> "",
                 errorData |-> NoErrorData, body |-> NoPayload]
NoResponse == [kind |-> "none", code |-> 0, statusText |-> "",
               errorData |-> NoErrorData, body |-> NoPayload]

RateLimited ==
    { Http(429, "Too Many Requests", <<"Rate limit reached">>, NoRetryAfter),
      Http(429, "Too Many Requests", <<"Rate limit reached", "try again in 2.5s">>,
           NoRetryAfter),
      Http(429, "Too Many Requests", <<"Rate limit reached">>, NumRetryAfter(1000)),
      Http(429, "Too Many Requests", <<"Rate limit reached">>, StrRetryAfter("2.5")) }

HttpErrors ==
    { Http(404, "Not Found", <<"No response found">>, NoRetryAfter),
      Http(500, "Internal Server Error", <<>>, NoRetryAfter) }

\* a stalling service never produces output: pending payloads, rate limits, errors
PendingPayloads ==
    { Payload("in_progress", NoError, FALSE, NoOutput, <<>>, <<>>, TRUE),
      Payload("queued", NoError, FALSE, NoOutput, <<>>, <<>>, TRUE),
      Payload("completed", NoError, FALSE, NoOutput, <<>>, <<>>, TRUE) }

\* a brief service: one answer of each kind the session tells apart; it never
\* rate-limits a submission (Spec has the rate-limited submissions)
BriefSubmits ==
    { Ok(Payload("in_progress", NoError, FALSE, NoOutput, <<>>, <<>>, TRUE)),
      Http(500, "Internal Server Error", <<>>, NoRetryAfter) }

BriefPolls ==
    { Ok(Payload("in_progress", NoError, FALSE, NoOutput, <<>>, <<>>, TRUE)),
      Ok(Payload("completed", NoError, FALSE, NoOutput, ShortQuestion, <<>>, TRUE)),
      Ok(Payload("completed", NoError, FALSE, NoOutput, LongReport, <<>>, TRUE)),
      Ok(Payload("failed", NoError, FALSE, NoOutput, <<>>, <<>>, TRUE)),
      Ok(Payload("failed", ErrorObj(<<"Model error">>), FALSE, NoOutput, <<>>,
                 <<>>, TRUE)) }

\* a service that accepts the job and reports it completed with no text to
\* show, in every shape
EmptySubmits ==
    { Ok(Payload("in_progress", NoError, FALSE, NoOutput, <<>>, <<>>, TRUE)),
      Ok(Payload("queued", NoError, FALSE, NoOutput, <<>>, <<>>, TRUE)) }

EmptyPolls ==
    { Ok(Payload("completed", NoError, FALSE, NoOutput, <<>>, <<>>, TRUE)),
      Ok(Payload("completed", NoError, FALSE, OutputList(<<>>), <<>>, <<>>, TRUE)),
      Ok(Payload("completed", NoError, FALSE,
                 OutputList(<<Item("reasoning", NoContent, <<>>, <<>>)>>),
                 <<>>, <<>>, TRUE)),
      Ok(Payload("completed", NoError, FALSE, NoOutput, <<" ">>, <<>>, TRUE)) }

SubmitResponses(srv) ==
    IF srv = "brief" THEN BriefSubmits
    ELSE IF srv = "empty" THEN EmptySubmits
    ELSE IF srv = "any"
    THEN {Ok(p) : p \in FlatPayloads(BOOLEAN) \cup ListPayloads(BOOLEAN)}
            \cup RateLimited \cup HttpErrors \cup {NetworkError}
    ELSE {Ok(p) : p \in PendingPayloads}
            \cup {Http(429, "Too Many Requests", <<"Rate limit reached">>,
                        NumRetryAfter(1000))}

PollResponses(srv) ==
    IF srv = "brief" THEN BriefPolls
    ELSE IF srv = "empty" THEN EmptyPolls
    ELSE IF srv = "any"
    THEN {Ok(p) : p \in FlatPayloads({TRUE}) \cup ListPayloads({TRUE})}
            \cup RateLimited \cup HttpErrors \cup {NetworkError}
    ELSE {Ok(p) : p \in PendingPayloads} \cup HttpErrors \cup {NetworkError}
            \cup {Http(429, "Too Many Requests", <<"Rate limit reached">>,
                        NoRetryAfter)}

FetchLatency == 1000
Latencies(srv) == IF srv = "stalling" THEN {0, FetchLatency} ELSE {0}

\* ------------------------------------------------------------------ state

VARIABLES
    server,         \* how the remote service behaves: "any", "stalling", "brief",
                    \* "empty"
    now,            \* the clock, ms
    pc,             \* "idle", "submitting", "submitWait", "fetching", "sleeping"
    wakeAt,         \* when the pending setTimeout fires
    submits,        \* submission requests issued by this run
    polls,          \* status fetches issued by this run, counted up to MaxPolls
    pollStart,      \* when pollForResult was entered
    fetchAt,        \* when the latest status fetch was issued
    gap,            \* time between the latest two status fetches (-1: fewer than two)
    lastResp,       \* the response being handled (dropped when the next fetch starts)
    respOf,         \* "none", "submit" or "poll": the request lastResp answered
    prevKind,       \* what answered the previous status fetch (see KindOf)
    sawFailure,     \* this run has received a payload with status failed or an error
    lastWait,       \* the delay of the latest sleep of the polling loop
    outcome,        \* how the run ended: "none", "question", "report", "failed"
    submitKind,     \* while the first status fetch is in flight: whether the
                    \* submission response was already a report ("report", "other")
    mode, messages, waitingForResearchAnswer, isProcessing, error,
    researchResult, hasAutoSent,
    templates,      \* the in-memory template list of the store
    remote,         \* the remote templates collection: id -> name, "" when absent
    ops,            \* the store calls in flight, each at its remote request
    isSaving,       \* the templates page is saving (its save buttons are disabled)
    nextId,         \* the id Date.now() gives the next new template
    lastCall,       \* the store call that completed last
    rejected,       \* some remote operation of the store has been rejected
    apiKey,         \* an API key is configured
    showSettings,   \* the settings overlay of the form is open
    mounted,        \* the research form is mounted
    chats,          \* the chat completions in flight, each with the history it sent
    turns,          \* calls of sendMessage so far
    lastTurn,       \* what the latest sendMessage did: "none", "noKey", "blank",
                    \* "research", "chat"
    runHistory,     \* the history the latest startDeepResearch was called with
    lateFetch,      \* a status fetch was issued after the form was torn down
    upPc,           \* the file upload: "idle", "creating", "uploading", "attaching",
                    \* "checking", "vsSleep", "settling", "extracting"
    upFiles,        \* files of the upload in progress
    upDone,         \* attach requests that have succeeded
    upPending,      \* the files whose uploadFile is in flight (positions in the input)
    upOrder,        \* the files whose upload has succeeded, in order of completion
    attachReqs,     \* the files an attach request was issued for, in order of issue
    upNow,          \* the clock of the upload, ms since handleFileUpload was called
    upStart,        \* startTime of waitForVectorStoreReady
    upFetchAt,      \* when the latest vector-store status fetch was issued
    upWake,         \* when the pending setTimeout of the upload fires
    upLast,         \* the latest response the upload has handled
    waitOutcome,    \* how waitForVectorStoreReady ended: "none", "ready",
                    \* "timedOut", "threw"
    upError,        \* the error banner of the wizard
    isProcessingFiles,
    vectorStoreId,  \* the wizard holds a vector store id
    contextFiles,   \* number of files the wizard lists
    uploads,        \* calls of handleFileUpload so far
    toExtract,      \* the PDF files of the upload whose text is still to be extracted
    contextText,    \* number of file texts appended to the wizard's context text
    vectorStoreIds, \* the vector store ids the form with its own upload retains
    batches,        \* that form's handleFileUpload calls with a key, in order of call:
                    \* stage "creating", "uploading", "attaching", "waiting",
                    \* "extracting", "done", "failed"; store id; number of files;
                    \* requests or extractions left in the stage
    storesCreated,  \* vector stores created so far: the ids are numbered as created
    processed,      \* the ids of the batches that succeeded, in order of completion
    overlapped,     \* a call of that handler was made while another was in progress
    others,         \* the research runs in flight besides the one pc follows
    otherEnd,       \* how the latest of those runs ended
    mounts          \* times the wizard has put the form back on screen

runVars == <<server, now, pc, wakeAt, submits, polls, pollStart, fetchAt, gap,
             lastResp, respOf, prevKind, sawFailure, lastWait, outcome,
             submitKind>>
sessionVars == <<mode, messages, waitingForResearchAnswer, isProcessing, error,
                 researchResult, hasAutoSent>>
tplVars == <<templates, remote, ops, isSaving, nextId, lastCall, rejected>>
formVars == <<apiKey, showSettings, mounted, chats, turns, lastTurn, runHistory,
              lateFetch>>
upVars == <<upPc, upFiles, upDone, upPending, upOrder, attachReqs, upNow, upStart, upFetchAt, upWake, upLast,
            waitOutcome, upError, isProcessingFiles, vectorStoreId, contextFiles,
            uploads, toExtract, contextText>>
storeVars == <<vectorStoreIds, batches, storesCreated, processed, overlapped>>
concVars == <<others, otherEnd, mounts>>
vars == <<runVars, sessionVars, tplVars, formVars, upVars, storeVars, concVars>>

MaxPolls == 2
MaxSubmits == 2
MaxClock == 606000

\* the clock of the model: pollForResult keeps no counter and reads no clock,
\* so the instants past MaxClock are not told apart
Clock(t) == IF t > MaxClock THEN MaxClock ELSE t

MaxOthers == 1
MaxMounts == 1

RemoveAt(seq, i) == SubSeq(seq, 1, i - 1) \o SubSeq(seq, i + 1, Len(seq))

\* a component is taken off screen: the state setters that its pending handlers
\* call from then on are ignored
Orphaned(list) == [i \in DOMAIN list |-> [list[i] EXCEPT !.live = FALSE]]

\* no run besides the one pc follows has ended yet
NoEnd == [outcome |-> "none", text |-> <<>>, resp |-> NoResponse, live |-> FALSE]

InitSession ==
    /\ now = 0 /\ pc = "idle" /\ wakeAt = 0 /\ submits = 0 /\ polls = 0
    /\ pollStart = 0 /\ fetchAt = 0 /\ gap = -1
    /\ lastResp = NoResponse /\ respOf = "none" /\ lastWait = 0
    /\ prevKind = "none" /\ sawFailure = FALSE
    /\ outcome = "none" /\ submitKind = "none"
    /\ mode = "chat" /\ messages = <<>> /\ waitingForResearchAnswer = FALSE
    /\ isProcessing = FALSE /\ error = <<>> /\ researchResult = <<>>
    /\ hasAutoSent = FALSE
    /\ others = <<>> /\ otherEnd = NoEnd /\ mounts = 0

MaxId == 2
MaxOps == 2
MaxTemplates == 2

TemplateIds == 1..MaxId
Names == {"a", "b"}
NoTemplate == [id |-> 0, name |-> ""]
NoCall == [kind |-> "none", t |-> NoTemplate, pre |-> <<>>, alone |-> TRUE]

InitTemplates ==
    /\ templates = <<>> /\ remote = [i \in TemplateIds |-> ""]
    /\ ops = <<>> /\ isSaving = FALSE /\ nextId = 1 /\ lastCall = NoCall
    /\ rejected = FALSE

\* the system turn that heads every history sent to the remote service
SystemMsg == [role |-> "system", content |-> <<"sys">>]

InitForm ==
    /\ showSettings = FALSE /\ mounted = TRUE /\ chats = <<>> /\ turns = 0
    /\ lastTurn = "none" /\ runHistory = <<>> /\ lateFetch = FALSE

\* a response of the files and vector-store endpoints
UpResp(kind, code, msg, ip, c) ==
    [kind |-> kind, code |-> code, message |-> msg, inProgress |-> ip, completed |-> c]
NoUp == UpResp("none", 0, <<>>, 0, 0)

InitUpload ==
    /\ upPc = "idle" /\ upFiles = 0 /\ upDone = 0 /\ upNow = 0 /\ upStart = 0
    /\ upPending = {} /\ upOrder = <<>> /\ attachReqs = <<>>
    /\ upFetchAt = 0 /\ upWake = 0 /\ upLast = NoUp /\ waitOutcome = "none"
    /\ upError = <<>> /\ isProcessingFiles = FALSE /\ vectorStoreId = FALSE
    /\ contextFiles = 0 /\ uploads = 0 /\ toExtract = 0 /\ contextText = 0

\* useState(initialVectorStoreId ? [initialVectorStoreId] : [])
InitStores(initial) ==
    /\ vectorStoreIds = initial /\ processed = initial
    /\ batches = <<>> /\ storesCreated = 0 /\ overlapped = FALSE

Init ==
    /\ InitSession /\ server = "any" /\ InitTemplates /\ InitForm /\ apiKey = TRUE
    /\ InitUpload /\ InitStores(<<>>)

\* ----------------------------------------------------------- research run

\* a response that carries status 'failed' or a top-level error object
IsFailure(resp) ==
    resp.kind = "ok" /\ (resp.body.status = "failed" \/ resp.body.error.present)

\* a payload that is already a report: completed, neither failed nor asking for
\* input, with a flat text that is not blank and not a question
ResolvesToReport(p) ==
    /\ p.status = "completed" /\ ~p.error.present /\ ~p.needs_input
    /\ ~p.output.present
    /\ Trim(p.output_text) # <<>> /\ ~containsQuestions(p.output_text)

\* the kinds of answer the loop's waits tell apart
KindOf(resp) ==
    IF resp.kind = "http" /\ resp.code = 429 THEN "rateLimited"
    ELSE IF resp.kind = "ok" /\ resp.body.status = "completed"
            /\ ~resp.body.output.present /\ resp.body.output_text = <<>>
            /\ ~IsFailure(resp) /\ ~resp.body.needs_input
    THEN "completedNoOutput"
    ELSE "other"

\* an ending that also shows the failure as an assistant turn
SessionEndWithErrorTurn(res) ==
    /\ isProcessing' = FALSE
    /\ mode' = IF res.outcome = "question" THEN "chat" ELSE mode
    /\ waitingForResearchAnswer' =
            IF res.outcome = "question" THEN TRUE ELSE waitingForResearchAnswer
    /\ messages' = IF res.outcome \in {"question", "failed"}
                   THEN Append(messages, [role |-> "assistant", content |-> res.text])
                   ELSE messages
    /\ researchResult' = IF res.outcome = "report" THEN res.text
                         ELSE IF res.outcome = "failed" THEN <<>>
                         ELSE researchResult
    /\ error' = IF res.outcome = "failed" THEN res.text ELSE error

\* the state setters at the end of startDeepResearch: the branch taken, then
\* catch and finally
SessionEnd(res) ==
    /\ isProcessing' = FALSE
    /\ mode' = IF res.outcome = "question" THEN "chat" ELSE mode
    /\ waitingForResearchAnswer' =
            IF res.outcome = "question" THEN TRUE ELSE waitingForResearchAnswer
    /\ messages' = IF res.outcome = "question"
                   THEN Append(messages, [role |-> "assistant", content |-> res.text])
                   ELSE messages
    /\ researchResult' = IF res.outcome = "report" THEN res.text
                         ELSE IF res.outcome = "failed" THEN <<>>
                         ELSE researchResult
    /\ error' = IF res.outcome = "failed" THEN res.text ELSE error

\* the end of a run of a form that may have been taken off screen meanwhile
EndFor(live, res) ==
    IF live THEN SessionEnd(res)
    ELSE UNCHANGED <<isProcessing, mode, waitingForResearchAnswer, messages,
                     researchResult, error>>

\* the end of the run that pc follows; that run belongs to the form on screen
\* as long as the form is mounted
Finish(res) ==
    /\ outcome' = res.outcome
    /\ pc' = "idle"
    /\ EndFor(mounted, res)

\* the auto-send effect with skipChat: the user turn goes straight to research
AutoSendSkipChat ==
    /\ pc = "idle" /\ ~hasAutoSent /\ ~isProcessing /\ messages = <<>>
    /\ apiKey /\ mounted
    /\ hasAutoSent' = TRUE
    /\ runHistory' = <<SystemMsg, [role |-> "user", content |-> <<"x">>]>>
    /\ UNCHANGED <<apiKey, showSettings, mounted, chats, turns, lastTurn, lateFetch>>
    /\ mode' = "research"
    /\ messages' = <<[role |-> "user", content |-> <<"x">>]>>
    /\ isProcessing' = TRUE
    /\ outcome' = "none"
    /\ pc' = "submitting" /\ submits' = 1 /\ polls' = 0
    /\ sawFailure' = FALSE /\ prevKind' = "none" /\ gap' = -1
    /\ UNCHANGED <<server, now, wakeAt, pollStart, fetchAt, lastResp, respOf,
                   lastWait, submitKind, waitingForResearchAnswer, error,
                   researchResult>>
    /\ UNCHANGED <<tplVars, upVars, storeVars>>
    /\ UNCHANGED concVars

\* the submission request completes
SubmitResponse ==
    /\ pc = "submitting"
    /\ \E resp \in SubmitResponses(server), lat \in Latencies(server) :
        LET r == SubmitStep(resp) IN
        /\ now' = now + lat
        /\ sawFailure' = (sawFailure \/ IsFailure(resp))
        /\ IF r.kind = "retry"
           THEN /\ pc' = "submitWait" /\ wakeAt' = now + lat + r.delay
                /\ lastResp' = resp /\ respOf' = "submit"
                /\ UNCHANGED <<polls, pollStart, fetchAt, outcome, submitKind>>
                /\ UNCHANGED <<sessionVars, lateFetch>>
           ELSE IF r.kind = "poll"
           THEN /\ pc' = "fetching" /\ polls' = 1
                /\ pollStart' = now + lat /\ fetchAt' = now + lat
                /\ lastResp' = NoResponse /\ respOf' = "none"
                /\ submitKind' = IF ResolvesToReport(resp.body)
                                 THEN "report" ELSE "other"
                /\ lateFetch' = (lateFetch \/ ~mounted)
                /\ UNCHANGED <<wakeAt, outcome>>
                /\ UNCHANGED sessionVars
           ELSE /\ lastResp' = resp /\ respOf' = "submit"
                /\ Finish(IF r.kind = "throw"
                          THEN [outcome |-> "failed", text |-> r.message]
                          ELSE ReadResult(resp.body, r.isQuestion))
                /\ UNCHANGED <<wakeAt, polls, pollStart, fetchAt, hasAutoSent,
                               submitKind, lateFetch>>
    /\ UNCHANGED <<server, submits, gap, prevKind, lastWait>>
    /\ UNCHANGED <<apiKey, showSettings, mounted, chats, turns, lastTurn, runHistory>>
    /\ UNCHANGED <<tplVars, upVars, storeVars>>
    /\ UNCHANGED concVars

\* the rate-limit wait of the submission is over: runDeepResearch calls itself
SubmitRetry ==
    /\ pc = "submitWait" /\ submits < MaxSubmits
    /\ now' = wakeAt
    /\ pc' = "submitting" /\ submits' = submits + 1
    /\ lastResp' = NoResponse /\ respOf' = "none"
    /\ UNCHANGED <<server, wakeAt, polls, pollStart, fetchAt, gap, prevKind,
                   sawFailure, lastWait, outcome, submitKind>>
    /\ UNCHANGED sessionVars
    /\ UNCHANGED formVars
    /\ UNCHANGED <<tplVars, upVars, storeVars>>
    /\ UNCHANGED concVars

\* a status fetch completes: one iteration of the polling loop
PollResponse ==
    /\ pc = "fetching"
    /\ \E resp \in PollResponses(server), lat \in Latencies(server) :
        LET r == PollStep(resp) IN
        /\ now' = Clock(now + lat)
        /\ lastResp' = resp /\ respOf' = "poll"
        /\ submitKind' = "none"
        /\ sawFailure' = (sawFailure \/ IsFailure(resp))
        /\ IF r.kind = "wait"
           THEN /\ pc' = "sleeping" /\ wakeAt' = Clock(now + lat + r.delay)
                /\ lastWait' = r.delay
                /\ UNCHANGED outcome
                /\ UNCHANGED sessionVars
           ELSE /\ Finish(IF r.kind = "throw"
                          THEN [outcome |-> "failed", text |-> r.message]
                          ELSE ReadResult(resp.body, r.isQuestion))
                /\ UNCHANGED <<wakeAt, lastWait, hasAutoSent>>
    /\ UNCHANGED <<server, submits, polls, pollStart, fetchAt, gap, prevKind>>
    /\ UNCHANGED formVars
    /\ UNCHANGED <<tplVars, upVars, storeVars>>
    /\ UNCHANGED concVars

\* the loop's sleep is over: the next status fetch is issued
PollWake ==
    /\ pc = "sleeping"
    /\ server \in {"stalling", "empty"} \/ polls < MaxPolls
    /\ now' = wakeAt
    /\ pc' = "fetching"
    /\ polls' = IF polls < MaxPolls THEN polls + 1 ELSE polls
    /\ gap' = wakeAt - fetchAt /\ fetchAt' = wakeAt
    /\ prevKind' = KindOf(lastResp)
    /\ lastResp' = NoResponse /\ respOf' = "none"
    /\ UNCHANGED <<server, wakeAt, submits, pollStart, sawFailure, lastWait,
                   outcome, submitKind>>
    /\ UNCHANGED sessionVars
    /\ lateFetch' = (lateFetch \/ ~mounted)
    /\ UNCHANGED <<apiKey, showSettings, mounted, chats, turns, lastTurn, runHistory>>
    /\ UNCHANGED <<tplVars, upVars, storeVars>>
    /\ UNCHANGED concVars

Next ==
    \/ AutoSendSkipChat
    \/ SubmitResponse
    \/ SubmitRetry
    \/ PollResponse
    \/ PollWake

Spec == Init /\ [][Next]_vars

\* a run against a service that never produces output; timers and responses
\* are always delivered
TimeInit ==
    /\ InitSession /\ server = "stalling" /\ InitTemplates /\ InitForm
    /\ apiKey = TRUE /\ InitUpload /\ InitStores(<<>>)

TimeSpec == TimeInit /\ [][Next]_vars /\ WF_vars(Next)

\* a run against a service whose job stays completed without text; timers and
\* responses are always delivered
EmptyInit ==
    /\ InitSession /\ server = "empty" /\ InitTemplates /\ InitForm
    /\ apiKey = TRUE /\ InitUpload /\ InitStores(<<>>)

EmptyNext ==
    \/ AutoSendSkipChat
    \/ SubmitResponse
    \/ PollResponse
    \/ PollWake

EmptySpec == EmptyInit /\ [][EmptyNext]_vars /\ WF_vars(EmptyNext)

\* ------------------------------------------------------- the research form

MaxTurns == 2
MaxChats == 2

\* what the user types: a message, or blanks only
Inputs == {<<"x">>, <<" ">>}

NoKeyMessage == <<"Please set your OpenAI API Key in settings first.">>

\* what sendChat gives back: the reply text, or an error that it throws
ChatText(t) == [kind |-> "text", text |-> t]
ChatError(m) == [kind |-> "error", text |-> m]
ChatReplies ==
    { ChatText(<<"x">>), ChatText(<<>>), ChatText(<<"[READY]">>),
      ChatText(<<"x", " ", "[READY]">>), ChatText(<<"[READY]", "x", "[READY]">>),
      ChatError(<<"Failed to communicate with OpenAI">>) }

RECURSIVE ReplaceFirst(_, _)
\* response.replace('[READY]', ''): the first occurrence only
ReplaceFirst(text, w) ==
    IF text = <<>> THEN <<>>
    ELSE IF Head(text) = w THEN Tail(text)
    ELSE <<Head(text)>> \o ReplaceFirst(Tail(text), w)

\* startDeepResearch up to its submission request, called by a handler of a
\* form instance that is still on screen (live) or not. Nothing in it looks at a
\* run in progress: a run that starts while pc follows another one is kept in
\* others
StartResearch(history, live) ==
    /\ isProcessing' = IF live THEN TRUE ELSE isProcessing
    /\ runHistory' = history
    /\ IF pc = "idle" /\ (live \/ ~mounted)
       THEN /\ outcome' = "none"
            /\ pc' = "submitting" /\ submits' = 1 /\ polls' = 0
            /\ sawFailure' = FALSE /\ prevKind' = "none" /\ gap' = -1
            /\ lastResp' = NoResponse /\ respOf' = "none"
            /\ UNCHANGED <<server, now, wakeAt, pollStart, fetchAt, lastWait,
                           submitKind>>
            /\ UNCHANGED others
       ELSE /\ Len(others) < MaxOthers
            /\ others' = Append(others, [pc |-> "submitting", submits |-> 1,
                                         polls |-> 0, live |-> live])
            /\ UNCHANGED runVars

\* sendMessage up to its first await, from the message box (rendered in chat mode)
SendMessage ==
    /\ mounted /\ mode = "chat" /\ turns < MaxTurns /\ Len(chats) < MaxChats
    /\ turns' = turns + 1
    /\ \E messageContent \in Inputs :
        LET userMsg == [role |-> "user", content |-> messageContent]
            newMessages == Append(messages, userMsg)
            fullHistory == <<SystemMsg>> \o newMessages
        IN
        IF ~apiKey
        THEN /\ error' = NoKeyMessage /\ showSettings' = TRUE
             /\ lastTurn' = "noKey"
             /\ UNCHANGED <<mode, messages, waitingForResearchAnswer, isProcessing,
                            researchResult, hasAutoSent, chats, runHistory, others>>
             /\ UNCHANGED runVars
        ELSE IF Trim(messageContent) = <<>>
        THEN /\ lastTurn' = "blank"
             /\ UNCHANGED <<showSettings, chats, runHistory, others>>
             /\ UNCHANGED <<runVars, sessionVars>>
        ELSE /\ messages' = newMessages
             /\ error' = <<>>
             /\ UNCHANGED <<showSettings, researchResult, hasAutoSent>>
             /\ IF waitingForResearchAnswer
                THEN /\ waitingForResearchAnswer' = FALSE
                     /\ mode' = "research"
                     /\ StartResearch(fullHistory, TRUE)
                     /\ lastTurn' = "research"
                     /\ UNCHANGED chats
                ELSE /\ isProcessing' = TRUE
                     /\ chats' = Append(chats, [history |-> fullHistory,
                                                live |-> TRUE])
                     /\ lastTurn' = "chat"
                     /\ UNCHANGED <<mode, waitingForResearchAnswer, runHistory,
                                    others>>
                     /\ UNCHANGED runVars
    /\ UNCHANGED <<apiKey, mounted, lateFetch, otherEnd, mounts>>
    /\ UNCHANGED <<tplVars, upVars, storeVars>>

\* sendChat completes: the rest of sendMessage. The state setters act only when
\* the form that sent the request is still on screen; startDeepResearch is called
\* either way
ChatReply ==
    /\ \E i \in DOMAIN chats, response \in ChatReplies :
        LET live == chats[i].live IN
        /\ chats' = RemoveAt(chats, i)
        /\ IF response.kind = "error"
           THEN /\ IF live
                   THEN error' = response.text /\ isProcessing' = FALSE
                   ELSE UNCHANGED <<error, isProcessing>>
                /\ UNCHANGED <<mode, messages, runHistory, others>>
                /\ UNCHANGED runVars
           ELSE IF Includes(response.text, "[READY]")
           THEN /\ IF live
                   THEN /\ mode' = "research"
                        /\ messages' = Append(messages,
                             [role |-> "assistant",
                              content |-> Trim(ReplaceFirst(response.text, "[READY]"))])
                   ELSE UNCHANGED <<mode, messages>>
                /\ StartResearch(chats[i].history, live)
                /\ UNCHANGED error
           ELSE /\ IF live
                   THEN /\ messages' = Append(messages,
                             [role |-> "assistant", content |-> response.text])
                        /\ isProcessing' = FALSE
                   ELSE UNCHANGED <<messages, isProcessing>>
                /\ UNCHANGED <<mode, error, runHistory, others>>
                /\ UNCHANGED runVars
    /\ UNCHANGED <<waitingForResearchAnswer, researchResult, hasAutoSent>>
    /\ UNCHANGED <<apiKey, showSettings, mounted, turns, lastTurn, lateFetch>>
    /\ UNCHANGED <<otherEnd, mounts>>
    /\ UNCHANGED <<tplVars, upVars, storeVars>>

\* the end of a run kept in others
OtherFinish(i, res, resp) ==
    /\ others' = RemoveAt(others, i)
    /\ otherEnd' = [outcome |-> res.outcome, text |-> res.text, resp |-> resp,
                    live |-> others[i].live]
    /\ EndFor(others[i].live, res)
    /\ UNCHANGED lateFetch

\* a run kept in others takes its next step: its submission or status fetch
\* completes, or its wait is over
OtherRunStep ==
    /\ \E i \in DOMAIN others :
        LET run == others[i] IN
        CASE run.pc = "submitting" ->
                \E resp \in SubmitResponses(server) :
                    LET r == SubmitStep(resp) IN
                    IF r.kind = "retry"
                    THEN /\ others' = [others EXCEPT ![i].pc = "submitWait"]
                         /\ UNCHANGED <<otherEnd, lateFetch>>
                         /\ UNCHANGED <<isProcessing, mode, waitingForResearchAnswer,
                                        messages, researchResult, error>>
                    ELSE IF r.kind = "poll"
                    THEN /\ others' = [others EXCEPT ![i].pc = "fetching",
                                                     ![i].polls = 1]
                         /\ lateFetch' = (lateFetch \/ ~run.live)
                         /\ UNCHANGED otherEnd
                         /\ UNCHANGED <<isProcessing, mode, waitingForResearchAnswer,
                                        messages, researchResult, error>>
                    ELSE OtherFinish(i, IF r.kind = "throw"
                                        THEN [outcome |-> "failed", text |-> r.message]
                                        ELSE ReadResult(resp.body, r.isQuestion),
                                     resp)
          [] run.pc = "submitWait" ->
                /\ run.submits < MaxSubmits
                /\ others' = [others EXCEPT ![i].pc = "submitting",
                                            ![i].submits = run.submits + 1]
                /\ UNCHANGED <<otherEnd, lateFetch>>
                /\ UNCHANGED <<isProcessing, mode, waitingForResearchAnswer,
                               messages, researchResult, error>>
          [] run.pc = "fetching" ->
                \E resp \in PollResponses(server) :
                    LET r == PollStep(resp) IN
                    IF r.kind = "wait"
                    THEN /\ others' = [others EXCEPT ![i].pc = "sleeping"]
                         /\ UNCHANGED <<otherEnd, lateFetch>>
                         /\ UNCHANGED <<isProcessing, mode, waitingForResearchAnswer,
                                        messages, researchResult, error>>
                    ELSE OtherFinish(i, IF r.kind = "throw"
                                        THEN [outcome |-> "failed", text |-> r.message]
                                        ELSE ReadResult(resp.body, r.isQuestion),
                                     resp)
          [] run.pc = "sleeping" ->
                /\ run.polls < MaxPolls
                /\ others' = [others EXCEPT ![i].pc = "fetching",
                                            ![i].polls = run.polls + 1]
                /\ lateFetch' = (lateFetch \/ ~run.live)
                /\ UNCHANGED otherEnd
                /\ UNCHANGED <<isProcessing, mode, waitingForResearchAnswer,
                               messages, researchResult, error>>
    /\ UNCHANGED hasAutoSent
    /\ UNCHANGED <<apiKey, showSettings, mounted, chats, turns, lastTurn, runHistory>>
    /\ UNCHANGED mounts
    /\ UNCHANGED <<runVars, tplVars, upVars, storeVars>>

\* the key field of the settings overlay: every change is written to the store
SetApiKey ==
    /\ mounted /\ showSettings
    /\ apiKey' = ~apiKey
    /\ UNCHANGED <<showSettings, mounted, chats, turns, lastTurn, runHistory,
                   lateFetch>>
    /\ UNCHANGED <<runVars, sessionVars, tplVars, upVars, storeVars, concVars>>

\* the overlay's "Save & Close" button
CloseSettings ==
    /\ mounted /\ showSettings
    /\ showSettings' = FALSE
    /\ UNCHANGED <<apiKey, mounted, chats, turns, lastTurn, runHistory, lateFetch>>
    /\ UNCHANGED <<runVars, sessionVars, tplVars, upVars, storeVars, concVars>>

\* "Back to Setup": the wizard returns to step 1 and the form is torn down; its
\* requests in flight go on
Unmount ==
    /\ mounted
    /\ mounted' = FALSE
    /\ chats' = Orphaned(chats)
    /\ others' = Orphaned(others)
    /\ UNCHANGED <<apiKey, showSettings, turns, lastTurn, runHistory, lateFetch>>
    /\ UNCHANGED <<otherEnd, mounts>>
    /\ UNCHANGED <<runVars, sessionVars, tplVars, upVars, storeVars>>

\* "Next: Start Clarification": the wizard shows step 2 again, with a new form
\* instance in its initial state; a run of the earlier instance goes on in others
Mount ==
    /\ ~mounted /\ mounts < MaxMounts
    /\ pc = "idle" \/ Len(others) < MaxOthers
    /\ mounted' = TRUE /\ mounts' = mounts + 1
    /\ mode' = "chat" /\ messages' = <<>> /\ waitingForResearchAnswer' = FALSE
    /\ isProcessing' = FALSE /\ error' = <<>> /\ researchResult' = <<>>
    /\ hasAutoSent' = FALSE /\ showSettings' = FALSE
    /\ others' = IF pc = "idle" THEN others
                 ELSE Append(others, [pc |-> pc, submits |-> submits,
                                      polls |-> polls, live |-> FALSE])
    /\ pc' = "idle" /\ outcome' = "none" /\ submits' = 0 /\ polls' = 0
    /\ sawFailure' = FALSE /\ prevKind' = "none" /\ gap' = -1
    /\ lastResp' = NoResponse /\ respOf' = "none" /\ submitKind' = "none"
    /\ UNCHANGED <<server, now, wakeAt, pollStart, fetchAt, lastWait>>
    /\ UNCHANGED <<apiKey, chats, turns, lastTurn, runHistory, lateFetch, otherEnd>>
    /\ UNCHANGED <<tplVars, upVars, storeVars>>

\* --------------------------------------------------- the wizard's file upload

MaxFiles == 2
MaxUploads == 1

VsMaxWait == 30000
VsPollInterval == 3000
VsSettleMs == 2000

UpOk == UpResp("ok", 200, <<>>, 0, 0)
\* the answers to the create, upload and attach requests
UpResponses ==
    { UpOk,
      UpResp("http", 429, <<"Rate limit reached">>, 0, 0),
      UpResp("http", 500, <<>>, 0, 0),
      UpResp("network", 0, <<"Failed to fetch">>, 0, 0) }

\* the answers to the vector-store status fetch, with file_counts
VsResponses ==
    {UpResp("ok", 200, <<>>, ip, c) : ip \in 0..1, c \in 0..1}
        \cup (UpResponses \ {UpOk})

\* the error a request of the upload throws: errorData.error?.message || fallback
UpMessage(resp, fallback) ==
    IF resp.kind = "network" THEN resp.message ELSE OrText(resp.message, fallback)

\* a readiness check that gives up on a failed status fetch
VsStepStrict(resp) ==
    IF resp.kind = "ok" /\ resp.inProgress = 0 /\ resp.completed > 0
    THEN "ready"
    ELSE IF resp.kind = "ok" THEN "retry" ELSE "throw"

\* one iteration of waitForVectorStoreReady, from the fetch's completion on
VsStep(resp) ==
    IF resp.kind = "ok" /\ resp.inProgress = 0 /\ resp.completed > 0
    THEN "ready"
    ELSE "retry"

\* file ids handed on in the order in which the uploads completed
FileIdsAsCompleted(n, completed) == completed

\* fileIds of processFilesForResearch: Promise.all keeps the order of the input
\* files, whatever the order of completion
FileIds(n, completed) == [i \in 1..n |-> i]

\* a rejection reaches the catch and finally of handleFileUpload
UpFail(message) ==
    /\ upError' = <<"Failed to upload files: ">> \o message
    /\ isProcessingFiles' = FALSE
    /\ upPc' = "idle"
    /\ UNCHANGED vectorStoreId

\* processFilesForResearch has returned the vector store id: the id is stored
\* and the loop over the files awaits the text of the first PDF among them; with
\* no PDF among them the finally block runs at once
UpSucceed ==
    /\ vectorStoreId' = TRUE
    /\ \E pdfs \in 0..upFiles :
        /\ toExtract' = pdfs
        /\ IF pdfs = 0
           THEN isProcessingFiles' = FALSE /\ upPc' = "idle"
           ELSE upPc' = "extracting" /\ UNCHANGED isProcessingFiles
    /\ UNCHANGED upError

\* a file upload handler that does not look at the key
HandleFileUploadUnchecked ==
    /\ ~mounted /\ ~isProcessingFiles /\ uploads < MaxUploads
    /\ uploads' = uploads + 1
    /\ \E n \in 1..MaxFiles :
        /\ contextFiles' = contextFiles + n
        /\ isProcessingFiles' = TRUE
        /\ upError' = <<>>
        /\ upPc' = "creating" /\ upFiles' = n /\ upDone' = 0
        /\ upPending' = {} /\ upOrder' = <<>> /\ attachReqs' = <<>>
        /\ upLast' = NoUp /\ waitOutcome' = "none"
        /\ upNow' = 0 /\ upStart' = 0 /\ upFetchAt' = 0 /\ upWake' = 0
    /\ UNCHANGED <<vectorStoreId, toExtract, contextText>>
    /\ UNCHANGED <<runVars, sessionVars, tplVars, formVars, storeVars>>
    /\ UNCHANGED concVars

\* handleFileUpload up to its first await, from the file input of step 1
HandleFileUpload ==
    /\ ~mounted /\ ~isProcessingFiles /\ uploads < MaxUploads
    /\ uploads' = uploads + 1
    /\ \E n \in 1..MaxFiles :
        IF ~apiKey
        THEN /\ upError' = NoKeyMessage
             /\ UNCHANGED <<upPc, upFiles, upDone, upPending, upOrder, attachReqs,
                            upLast, waitOutcome, isProcessingFiles, contextFiles,
                            upNow, upStart, upFetchAt, upWake>>
        ELSE /\ contextFiles' = contextFiles + n
             /\ isProcessingFiles' = TRUE
             /\ upError' = <<>>
             /\ upPc' = "creating" /\ upFiles' = n /\ upDone' = 0
             /\ upPending' = {} /\ upOrder' = <<>> /\ attachReqs' = <<>>
             /\ upLast' = NoUp /\ waitOutcome' = "none"
             /\ upNow' = 0 /\ upStart' = 0 /\ upFetchAt' = 0 /\ upWake' = 0
    /\ UNCHANGED <<vectorStoreId, toExtract, contextText>>
    /\ UNCHANGED <<runVars, sessionVars, tplVars, formVars, storeVars>>
    /\ UNCHANGED concVars

\* createVectorStore completes: every uploadFile is started
CreateResponse ==
    /\ upPc = "creating"
    /\ \E resp \in UpResponses :
        /\ upLast' = resp
        /\ IF resp.kind = "ok"
           THEN /\ upPc' = "uploading" /\ upPending' = 1..upFiles
                /\ UNCHANGED <<upError, isProcessingFiles, vectorStoreId>>
           ELSE /\ UpFail(UpMessage(resp, <<"Failed to create vector store">>))
                /\ UNCHANGED upPending
    /\ UNCHANGED <<upFiles, upDone, upOrder, attachReqs, upNow, upStart, upFetchAt,
                   upWake, waitOutcome, contextFiles, uploads, toExtract, contextText>>
    /\ UNCHANGED <<runVars, sessionVars, tplVars, formVars, storeVars>>
    /\ UNCHANGED concVars

\* one uploadFile of the Promise.all completes, in any order; after the last one
\* addFilesToVectorStore issues its first attach request
UploadResponse ==
    /\ upPc = "uploading"
    /\ \E i \in upPending, resp \in UpResponses :
        /\ upLast' = resp
        /\ upPending' = upPending \ {i}
        /\ IF resp.kind = "ok"
           THEN /\ upOrder' = Append(upOrder, i)
                /\ IF upPending = {i}
                   THEN /\ upPc' = "attaching"
                        /\ attachReqs' = <<FileIds(upFiles, Append(upOrder, i))[1]>>
                   ELSE UNCHANGED <<upPc, attachReqs>>
                /\ UNCHANGED <<upError, isProcessingFiles, vectorStoreId>>
           ELSE /\ UpFail(UpMessage(resp, <<"Failed to upload file">>))
                /\ UNCHANGED <<upOrder, attachReqs>>
    /\ UNCHANGED <<upFiles, upDone, upNow, upStart, upFetchAt, upWake, waitOutcome,
                   contextFiles, uploads, toExtract, contextText>>
    /\ UNCHANGED <<runVars, sessionVars, tplVars, formVars, storeVars>>
    /\ UNCHANGED concVars

\* one attach request of addFilesToVectorStore completes; after the last one
\* waitForVectorStoreReady is entered and issues its first status fetch
AttachResponse ==
    /\ upPc = "attaching"
    /\ \E resp \in UpResponses :
        /\ upLast' = resp
        /\ IF resp.kind = "ok"
           THEN /\ upDone' = upDone + 1
                /\ attachReqs' =
                        IF upDone + 1 = upFiles THEN attachReqs
                        ELSE Append(attachReqs, FileIds(upFiles, upOrder)[upDone + 2])
                /\ upPc' = IF upDone + 1 = upFiles THEN "checking" ELSE "attaching"
                /\ upStart' = IF upDone + 1 = upFiles THEN upNow ELSE upStart
                /\ upFetchAt' = IF upDone + 1 = upFiles THEN upNow ELSE upFetchAt
                /\ UNCHANGED <<upError, isProcessingFiles, vectorStoreId>>
           ELSE /\ UpFail(UpMessage(resp,
                        <<"Failed to add file ", "{fileId}", " to vector store">>))
                /\ UNCHANGED <<upDone, attachReqs, upStart, upFetchAt>>
    /\ UNCHANGED <<upFiles, upPending, upOrder, upNow, upWake, waitOutcome,
                   contextFiles, uploads, toExtract, contextText>>
    /\ UNCHANGED <<runVars, sessionVars, tplVars, formVars, storeVars>>
    /\ UNCHANGED concVars

\* the vector-store status fetch completes
StatusResponse ==
    /\ upPc = "checking"
    /\ \E resp \in VsResponses, lat \in {0, FetchLatency} :
        /\ upLast' = resp
        /\ upNow' = upNow + lat
        /\ IF VsStep(resp) = "ready"
           THEN /\ upPc' = "settling" /\ upWake' = upNow + lat + VsSettleMs
                /\ UNCHANGED <<waitOutcome, upError, isProcessingFiles, vectorStoreId>>
           ELSE IF VsStep(resp) = "retry"
           THEN /\ upPc' = "vsSleep" /\ upWake' = upNow + lat + VsPollInterval
                /\ UNCHANGED <<waitOutcome, upError, isProcessingFiles, vectorStoreId>>
           ELSE /\ waitOutcome' = "threw"
                /\ UpFail(UpMessage(resp, <<"Failed to check vector store">>))
                /\ UNCHANGED upWake
    /\ UNCHANGED <<upFiles, upDone, upPending, upOrder, attachReqs, upStart,
                   upFetchAt, contextFiles, uploads, toExtract, contextText>>
    /\ UNCHANGED <<runVars, sessionVars, tplVars, formVars, storeVars>>
    /\ UNCHANGED concVars

\* the 3 s sleep is over: the while condition is read again
StatusWake ==
    /\ upPc = "vsSleep"
    /\ upNow' = upWake
    /\ IF upWake - upStart < VsMaxWait
       THEN /\ upPc' = "checking" /\ upFetchAt' = upWake
            /\ UNCHANGED <<waitOutcome, upError, isProcessingFiles, vectorStoreId,
                           toExtract>>
       ELSE /\ waitOutcome' = "timedOut"
            /\ UpSucceed
            /\ UNCHANGED upFetchAt
    /\ UNCHANGED <<upFiles, upDone, upPending, upOrder, attachReqs, upStart, upWake,
                   upLast, contextFiles, uploads, contextText>>
    /\ UNCHANGED <<runVars, sessionVars, tplVars, formVars, storeVars>>
    /\ UNCHANGED concVars

\* the 2 s settling sleep after a ready status is over: the wait returns
Settle ==
    /\ upPc = "settling"
    /\ upNow' = upWake
    /\ waitOutcome' = "ready"
    /\ UpSucceed
    /\ UNCHANGED <<upFiles, upDone, upPending, upOrder, attachReqs, upStart,
                   upFetchAt, upWake, upLast, contextFiles, uploads, contextText>>
    /\ UNCHANGED <<runVars, sessionVars, tplVars, formVars, storeVars>>
    /\ UNCHANGED concVars

\* extractTextFromPDF of one PDF settles: its text is appended, or the failure
\* is logged; after the last PDF the finally block clears the processing flag
ExtractResponse ==
    /\ upPc = "extracting"
    /\ \E ok \in BOOLEAN :
        contextText' = IF ok THEN contextText + 1 ELSE contextText
    /\ toExtract' = toExtract - 1
    /\ IF toExtract = 1
       THEN isProcessingFiles' = FALSE /\ upPc' = "idle"
       ELSE UNCHANGED <<isProcessingFiles, upPc>>
    /\ UNCHANGED <<upFiles, upDone, upPending, upOrder, attachReqs, upNow, upStart,
                   upFetchAt, upWake, upLast, waitOutcome, upError, vectorStoreId,
                   contextFiles, uploads>>
    /\ UNCHANGED <<runVars, sessionVars, tplVars, formVars, storeVars>>
    /\ UNCHANGED concVars

\* the wizard at step 1: the form is not mounted
UpInit ==
    /\ InitSession /\ server = "brief" /\ InitTemplates /\ InitUpload
    /\ InitStores(<<>>)
    /\ showSettings = FALSE /\ mounted = FALSE /\ chats = <<>> /\ turns = 0
    /\ lastTurn = "none" /\ runHistory = <<>> /\ lateFetch = FALSE
    /\ apiKey \in BOOLEAN

UpNext ==
    \/ HandleFileUpload
    \/ CreateResponse
    \/ UploadResponse
    \/ AttachResponse
    \/ StatusResponse
    \/ StatusWake
    \/ Settle
    \/ ExtractResponse

UpSpec == UpInit /\ [][UpNext]_vars

\* ------------------------------- the form with its own upload: retained stores

MaxBatches == 2

RetainedStores == 2

\* updated.slice(-2)
LastTwo(ids) ==
    IF Len(ids) <= RetainedStores THEN ids
    ELSE SubSeq(ids, Len(ids) - RetainedStores + 1, Len(ids))

\* an updater that keeps every id
UpdateStoreIdsKeepAll(prev, vsId) == Append(prev, vsId)

\* the updater handed to setVectorStoreIds
UpdateStoreIds(prev, vsId) == LastTwo(Append(prev, vsId))

\* the state of the wizard's own upload, which the form's handler leaves alone
wizardUpload == <<upPc, upFiles, upDone, upPending, upOrder, attachReqs, upNow,
                  upStart, upFetchAt, upWake, upLast, waitOutcome, upError,
                  vectorStoreId, uploads, toExtract>>

\* a call of the form's handleFileUpload is in progress
BatchInProgress ==
    \E b \in DOMAIN batches : batches[b].stage \notin {"done", "failed"}

\* a rejection of processFilesForResearch reaches the catch and finally of
\* handleFileUpload
BatchFail(b, message) ==
    /\ batches' = [batches EXCEPT ![b].stage = "failed", ![b].left = 0]
    /\ error' = <<"Failed to upload files: ">> \o message
    /\ isProcessingFiles' = FALSE
    /\ UNCHANGED <<vectorStoreIds, processed>>

\* handleFileUpload up to its first await; the handler sets isProcessingFiles
\* and never reads it, so a call is taken while an earlier one is in progress
BatchUpload ==
    /\ Len(batches) < MaxBatches
    /\ \E n \in 1..MaxFiles :
        IF ~apiKey
        THEN /\ error' = NoKeyMessage /\ showSettings' = TRUE
             /\ UNCHANGED <<batches, isProcessingFiles, contextFiles, overlapped>>
        ELSE /\ batches' = Append(batches, [stage |-> "creating", id |-> 0,
                                            files |-> n, left |-> 0])
             /\ overlapped' = (overlapped \/ BatchInProgress)
             /\ contextFiles' = contextFiles + n
             /\ isProcessingFiles' = TRUE
             /\ error' = <<>>
             /\ UNCHANGED showSettings
    /\ UNCHANGED <<vectorStoreIds, storesCreated, processed, contextText>>
    /\ UNCHANGED <<mode, messages, waitingForResearchAnswer, isProcessing,
                   researchResult, hasAutoSent>>
    /\ UNCHANGED <<apiKey, mounted, chats, turns, lastTurn, runHistory, lateFetch>>
    /\ UNCHANGED <<wizardUpload, runVars, tplVars, concVars>>

\* createVectorStore of a batch completes: every uploadFile is started
BatchStoreCreated ==
    /\ \E b \in DOMAIN batches, resp \in UpResponses :
        /\ batches[b].stage = "creating"
        /\ IF resp.kind = "ok"
           THEN /\ storesCreated' = storesCreated + 1
                /\ batches' = [batches EXCEPT ![b].stage = "uploading",
                                              ![b].id = storesCreated + 1,
                                              ![b].left = batches[b].files]
                /\ UNCHANGED <<vectorStoreIds, processed, error, isProcessingFiles>>
           ELSE /\ BatchFail(b, UpMessage(resp, <<"Failed to create vector store">>))
                /\ UNCHANGED storesCreated
    /\ UNCHANGED <<mode, messages, waitingForResearchAnswer, isProcessing,
                   researchResult, hasAutoSent>>
    /\ UNCHANGED <<contextFiles, contextText, overlapped>>
    /\ UNCHANGED <<wizardUpload, runVars, tplVars, formVars, concVars>>

\* one uploadFile of a batch's Promise.all completes; after the last one
\* addFilesToVectorStore issues its first attach request
BatchFileUploaded ==
    /\ \E b \in DOMAIN batches, resp \in UpResponses :
        /\ batches[b].stage = "uploading"
        /\ IF resp.kind = "ok"
           THEN /\ batches' =
                    IF batches[b].left = 1
                    THEN [batches EXCEPT ![b].stage = "attaching",
                                         ![b].left = batches[b].files]
                    ELSE [batches EXCEPT ![b].left = batches[b].left - 1]
                /\ UNCHANGED <<vectorStoreIds, processed, error, isProcessingFiles>>
           ELSE BatchFail(b, UpMessage(resp, <<"Failed to upload file">>))
    /\ UNCHANGED storesCreated
    /\ UNCHANGED <<mode, messages, waitingForResearchAnswer, isProcessing,
                   researchResult, hasAutoSent>>
    /\ UNCHANGED <<contextFiles, contextText, overlapped>>
    /\ UNCHANGED <<wizardUpload, runVars, tplVars, formVars, concVars>>

\* one attach request of a batch completes; after the last one
\* waitForVectorStoreReady is entered
BatchFileAttached ==
    /\ \E b \in DOMAIN batches, resp \in UpResponses :
        /\ batches[b].stage = "attaching"
        /\ IF resp.kind = "ok"
           THEN /\ batches' =
                    IF batches[b].left = 1
                    THEN [batches EXCEPT ![b].stage = "waiting", ![b].left = 0]
                    ELSE [batches EXCEPT ![b].left = batches[b].left - 1]
                /\ UNCHANGED <<vectorStoreIds, processed, error, isProcessingFiles>>
           ELSE BatchFail(b, UpMessage(resp,
                        <<"Failed to add file ", "{fileId}", " to vector store">>))
    /\ UNCHANGED storesCreated
    /\ UNCHANGED <<mode, messages, waitingForResearchAnswer, isProcessing,
                   researchResult, hasAutoSent>>
    /\ UNCHANGED <<contextFiles, contextText, overlapped>>
    /\ UNCHANGED <<wizardUpload, runVars, tplVars, formVars, concVars>>

\* the readiness wait of a batch returns, as it does whatever the status
\* fetches answer: processFilesForResearch returns the store id, the id is
\* appended to the list and the loop over the files awaits the text of the
\* first PDF among them; with no PDF among them the finally block runs at once
BatchProcessed ==
    /\ \E b \in DOMAIN batches, pdfs \in 0..MaxFiles :
        /\ batches[b].stage = "waiting"
        /\ pdfs <= batches[b].files
        /\ vectorStoreIds' = UpdateStoreIds(vectorStoreIds, batches[b].id)
        /\ processed' = Append(processed, batches[b].id)
        /\ error' = <<>>
        /\ IF pdfs = 0
           THEN /\ batches' = [batches EXCEPT ![b].stage = "done"]
                /\ isProcessingFiles' = FALSE
           ELSE /\ batches' = [batches EXCEPT ![b].stage = "extracting",
                                              ![b].left = pdfs]
                /\ UNCHANGED isProcessingFiles
    /\ UNCHANGED storesCreated
    /\ UNCHANGED <<mode, messages, waitingForResearchAnswer, isProcessing,
                   researchResult, hasAutoSent>>
    /\ UNCHANGED <<contextFiles, contextText, overlapped>>
    /\ UNCHANGED <<wizardUpload, runVars, tplVars, formVars, concVars>>

\* extractTextFromPDF of one PDF of a batch settles: its text is appended, or
\* the failure is logged; after the last PDF the finally block clears the
\* processing flag
BatchExtracted ==
    /\ \E b \in DOMAIN batches, ok \in BOOLEAN :
        /\ batches[b].stage = "extracting"
        /\ contextText' = IF ok THEN contextText + 1 ELSE contextText
        /\ IF batches[b].left = 1
           THEN /\ batches' = [batches EXCEPT ![b].stage = "done", ![b].left = 0]
                /\ isProcessingFiles' = FALSE
           ELSE /\ batches' = [batches EXCEPT ![b].left = batches[b].left - 1]
                /\ UNCHANGED isProcessingFiles
    /\ UNCHANGED <<vectorStoreIds, storesCreated, processed, contextFiles,
                   overlapped>>
    /\ UNCHANGED sessionVars
    /\ UNCHANGED <<wizardUpload, runVars, tplVars, formVars, concVars>>

StoreInit ==
    /\ InitSession /\ server = "brief" /\ InitTemplates /\ InitForm /\ InitUpload
    /\ apiKey \in BOOLEAN
    /\ \E initial \in {<<>>, <<0>>} : InitStores(initial)

StoreNext ==
    \/ BatchUpload
    \/ BatchStoreCreated
    \/ BatchFileUploaded
    \/ BatchFileAttached
    \/ BatchProcessed
    \/ BatchExtracted

StoreSpec == StoreInit /\ [][StoreNext]_vars

FormInit ==
    /\ InitSession /\ server = "brief" /\ InitTemplates /\ InitForm
    /\ apiKey \in BOOLEAN /\ InitUpload /\ InitStores(<<>>)

FormNext ==
    \/ AutoSendSkipChat
    \/ SubmitResponse
    \/ PollResponse
    \/ PollWake
    \/ SendMessage
    \/ ChatReply
    \/ OtherRunStep
    \/ SetApiKey
    \/ CloseSettings
    \/ Unmount
    \/ Mount
    \/ HandleFileUpload

\* the form's session; a file upload can be started once the wizard is back at
\* step 1, and its requests stay unanswered here (UpSpec has their answers)
FormSpec == FormInit /\ [][FormNext]_vars

\* ---------------------------------------------------------- template store

\* state.templates.filter(t => t.id !== id)
WithoutId(list, id) == SelectSeq(list, LAMBDA t : t.id # id)

RECURSIVE RemoteDocs(_)
\* fetchTemplates: the documents of the collection with id 1..n, in id order
RemoteDocs(n) ==
    IF n = 0 THEN <<>>
    ELSE IF remote[n] = "" THEN RemoteDocs(n - 1)
    ELSE Append(RemoteDocs(n - 1), [id |-> n, name |-> remote[n]])

\* a call that starts while others are in flight: none of them runs alone
Joined(list) == [i \in DOMAIN list |-> [list[i] EXCEPT !.alone = FALSE]]

\* live: the page instance that made the call is still the one on screen
Started(kind, t) ==
    Append(Joined(ops), [op |-> kind, t |-> t, pre |-> templates,
                         alone |-> ops = <<>>, live |-> TRUE])

Completed(kind, o) == [kind |-> kind, t |-> o.t, pre |-> o.pre, alone |-> o.alone]

\* addTemplate up to its await: the optimistic insert, then the remote save starts
AddTemplate(t) ==
    /\ templates' = Append(templates, t)
    /\ ops' = Started("save", t)

\* the page's "Save Template": a new template with id Date.now()
HandleAddTemplate ==
    /\ ~isSaving /\ nextId <= MaxId
    /\ Len(ops) < MaxOps /\ Len(templates) < MaxTemplates
    /\ \E n \in Names : AddTemplate([id |-> nextId, name |-> n])
    /\ isSaving' = TRUE /\ nextId' = nextId + 1
    /\ UNCHANGED <<remote, lastCall>>
    /\ UNCHANGED rejected
    /\ UNCHANGED <<runVars, sessionVars, formVars, upVars, storeVars>>
    /\ UNCHANGED concVars

\* the page's save of an edit: addTemplate with the edited template's own id
HandleSaveEdit ==
    /\ ~isSaving
    /\ Len(ops) < MaxOps /\ Len(templates) < MaxTemplates
    /\ \E i \in DOMAIN templates, n \in Names :
          AddTemplate([templates[i] EXCEPT !.name = n])
    /\ isSaving' = TRUE
    /\ UNCHANGED <<remote, nextId, lastCall>>
    /\ UNCHANGED rejected
    /\ UNCHANGED <<runVars, sessionVars, formVars, upVars, storeVars>>
    /\ UNCHANGED concVars

\* saveTemplate resolves: setDoc has overwritten the document with that id
SaveOk ==
    /\ \E i \in DOMAIN ops :
        /\ ops[i].op = "save"
        /\ remote' = [remote EXCEPT ![ops[i].t.id] = ops[i].t.name]
        /\ ops' = RemoveAt(ops, i)
        /\ lastCall' = Completed("addOk", ops[i])
        /\ isSaving' = IF ops[i].live THEN FALSE ELSE isSaving
    /\ UNCHANGED <<templates, nextId>>
    /\ UNCHANGED rejected
    /\ UNCHANGED <<runVars, sessionVars, formVars, upVars, storeVars>>
    /\ UNCHANGED concVars

\* saveTemplate rejects: the catch block of addTemplate, which rethrows
SaveFail ==
    /\ \E i \in DOMAIN ops :
        /\ ops[i].op = "save"
        /\ templates' = WithoutId(templates, ops[i].t.id)
        /\ ops' = RemoveAt(ops, i)
        /\ lastCall' = Completed("addFailed", ops[i])
        /\ isSaving' = IF ops[i].live THEN FALSE ELSE isSaving
    /\ UNCHANGED <<remote, nextId>>
    /\ rejected' = TRUE
    /\ UNCHANGED <<runVars, sessionVars, formVars, upVars, storeVars>>
    /\ UNCHANGED concVars

\* removeTemplate up to its await, from the delete button of a listed template
HandleRemoveTemplate ==
    /\ Len(ops) < MaxOps
    /\ \E i \in DOMAIN templates :
        /\ templates' = WithoutId(templates, templates[i].id)
        /\ ops' = Started("delete", templates[i])
    /\ UNCHANGED <<remote, isSaving, nextId, lastCall>>
    /\ UNCHANGED rejected
    /\ UNCHANGED <<runVars, sessionVars, formVars, upVars, storeVars>>
    /\ UNCHANGED concVars

\* deleteTemplate resolves
DeleteOk ==
    /\ \E i \in DOMAIN ops :
        /\ ops[i].op = "delete"
        /\ remote' = [remote EXCEPT ![ops[i].t.id] = ""]
        /\ ops' = RemoveAt(ops, i)
        /\ lastCall' = Completed("removeOk", ops[i])
    /\ UNCHANGED <<templates, isSaving, nextId>>
    /\ UNCHANGED rejected
    /\ UNCHANGED <<runVars, sessionVars, formVars, upVars, storeVars>>
    /\ UNCHANGED concVars

\* deleteTemplate rejects: the catch block awaits loadTemplates before rethrowing
DeleteFail ==
    /\ \E i \in DOMAIN ops :
        /\ ops[i].op = "delete"
        /\ ops' = [ops EXCEPT ![i].op = "reload"]
    /\ UNCHANGED <<templates, remote, isSaving, nextId, lastCall>>
    /\ rejected' = TRUE
    /\ UNCHANGED <<runVars, sessionVars, formVars, upVars, storeVars>>
    /\ UNCHANGED concVars

\* the templates page is opened (again, after it was left for the wizard): a
\* fresh page instance, whose effect calls loadTemplates up to its await
LoadTemplates ==
    /\ Len(ops) < MaxOps
    /\ ops' = Append(Orphaned(Joined(ops)),
                     [op |-> "load", t |-> NoTemplate, pre |-> templates,
                      alone |-> ops = <<>>, live |-> TRUE])
    /\ isSaving' = FALSE
    /\ UNCHANGED <<templates, remote, nextId, lastCall>>
    /\ UNCHANGED rejected
    /\ UNCHANGED <<runVars, sessionVars, formVars, upVars, storeVars>>
    /\ UNCHANGED concVars

\* fetchTemplates resolves: the list is replaced by the remote documents;
\* a removeTemplate that was recovering now rethrows
FetchOk ==
    /\ \E i \in DOMAIN ops :
        /\ ops[i].op \in {"load", "reload"}
        /\ templates' = RemoteDocs(MaxId)
        /\ ops' = RemoveAt(ops, i)
        /\ lastCall' = Completed(IF ops[i].op = "load" THEN "load" ELSE "removeFailed",
                                 ops[i])
    /\ UNCHANGED <<remote, isSaving, nextId>>
    /\ UNCHANGED rejected
    /\ UNCHANGED <<runVars, sessionVars, formVars, upVars, storeVars>>
    /\ UNCHANGED concVars

\* fetchTemplates rejects: loadTemplates logs it and resolves
FetchFail ==
    /\ \E i \in DOMAIN ops :
        /\ ops[i].op \in {"load", "reload"}
        /\ ops' = RemoveAt(ops, i)
        /\ lastCall' = Completed(IF ops[i].op = "load" THEN "load" ELSE "removeFailed",
                                 ops[i])
    /\ UNCHANGED <<templates, remote, isSaving, nextId>>
    /\ rejected' = TRUE
    /\ UNCHANGED <<runVars, sessionVars, formVars, upVars, storeVars>>
    /\ UNCHANGED concVars

TplNext ==
    \/ HandleAddTemplate
    \/ HandleSaveEdit
    \/ SaveOk
    \/ SaveFail
    \/ HandleRemoveTemplate
    \/ DeleteOk
    \/ DeleteFail
    \/ LoadTemplates
    \/ FetchOk
    \/ FetchFail

TplSpec == Init /\ [][TplNext]_vars

\* ------------------------------------------------------------- claims

\* the latest payload, when the request it answered was a status fetch
PolledPayload == respOf = "poll" /\ lastResp.kind = "ok"

\* a text under 500 characters that contains a '?' and a question word
IsShortQuestion(t) ==
    /\ Length(t) < ShortLimit
    /\ \E i \in 1..Len(t) : t[i] = "?"
    /\ \E i \in 1..Len(t) : t[i] = "what"

LastContent(msgs) == IF msgs = <<>> THEN <<>> ELSE msgs[Len(msgs)].content

\* C1: every payload a status fetch returns that carries status 'failed' or a
\* top-level error object ends the run in Failed with the error message surfaced
\* (error.message, else the generic fallback), whatever the message says; the run
\* does not go on polling and does not end as question or report.
C1_FailedPayloadEndsRun ==
    (PolledPayload /\ IsFailure(lastResp)) =>
        /\ pc = "idle" /\ outcome = "failed"
        /\ error = FailureMessage(lastResp.body)

\* C2: a status payload that is not a failure (no status 'failed', no error
\* object), whose extracted text (first message item, else the other items, else
\* output_text, else text) is under 500 characters and contains a '?' and a
\* question word, ends the run as question with that text, never as report.
C2_ShortQuestionIsQuestion ==
    (/\ PolledPayload /\ ~IsFailure(lastResp)
     /\ IsShortQuestion(QuestionTextOf(lastResp.body))) =>
        /\ outcome = "question"
        /\ LastContent(messages) = QuestionTextOf(lastResp.body)

\* C3: a status payload with status 'completed' (no error, no needs_input flag)
\* whose extracted text is at least 2000 characters and not blank ends the run as
\* report, never as question, whatever the shape of the output list.
C3_LongCompletedIsReport ==
    (/\ PolledPayload /\ ~IsFailure(lastResp) /\ ~lastResp.body.needs_input
     /\ lastResp.body.status = "completed"
     /\ Length(FinalTextOf(lastResp.body)) >= ReportLimit
     /\ Trim(FinalTextOf(lastResp.body)) # <<>>) =>
        /\ outcome = "report"
        /\ researchResult = FinalTextOf(lastResp.body)

\* C5 as claimed: two consecutive status fetches are at least the interval
\* (3 s) apart unless the earlier one was answered with HTTP 429.
C5_IntervalExceptRateLimit ==
    (gap >= 0 /\ prevKind # "rateLimited") => gap >= pollInterval

\* C5: two consecutive status fetches are at least the interval (3 s) apart
\* unless the earlier one was answered with HTTP 429 or with a 'completed'
\* payload that has no output, after which the next fetch follows 2 s later.
C5_PollSpacing ==
    /\ (gap >= 0 /\ prevKind = "other") => gap >= pollInterval
    /\ (gap >= 0 /\ prevKind = "completedNoOutput") => gap >= CompletedRecheckMs

C5_Witness == pc = "fetching" /\ prevKind = "other" /\ gap = pollInterval

\* the payload {status: 'completed', output_text: T} and nothing else
IsCompletedText(p) ==
    /\ p.status = "completed" /\ ~p.error.present /\ ~p.needs_input
    /\ ~p.output.present /\ p.text = <<>>

\* C6 as claimed: pending fetches followed by {status:'completed', output_text:T}
\* with T of at least 2000 characters end as report, and T is the stored result.
C6_ReportStoredExactly ==
    (/\ PolledPayload /\ IsCompletedText(lastResp.body)
     /\ Length(lastResp.body.output_text) >= ReportLimit) =>
        /\ outcome = "report"
        /\ researchResult = lastResp.body.output_text

\* C6: the same, for every T of at least 2000 characters that is not blank.
C6_NonBlankReportStoredExactly ==
    (/\ PolledPayload /\ IsCompletedText(lastResp.body)
     /\ Length(lastResp.body.output_text) >= ReportLimit
     /\ Trim(lastResp.body.output_text) # <<>>) =>
        /\ outcome = "report"
        /\ researchResult = lastResp.body.output_text

C6_Witness ==
    /\ PolledPayload /\ IsCompletedText(lastResp.body) /\ polls >= 2
    /\ prevKind = "other"
    /\ lastResp.body.output_text = <<" ", "X1998", "?">>
    /\ outcome = "report" /\ researchResult = <<" ", "X1998", "?">>

\* the retry-after duration the rate-limit rule names: the error's retry_after
\* field, else the 'try again in Ns' of error.message, else 5 seconds
ClaimedRetryMs(errorData) ==
    IF errorData.retry_after.kind = "num" /\ errorData.retry_after.num # 0
    THEN errorData.retry_after.num
    ELSE IF errorData.retry_after.kind = "str" /\ errorData.retry_after.str # ""
    THEN ParseFloatMs(errorData.retry_after.str)
    ELSE IF MatchRetry(errorData.message) # ""
    THEN ParseFloatMs(MatchRetry(errorData.message))
    ELSE DefaultRetryMs

\* C7: a status fetch answered with HTTP 429 does not fail the loop: it sleeps
\* for the retry-after duration (field, else message, else 5 s) and fetches again.
C7_RateLimitWait ==
    (respOf = "poll" /\ lastResp.kind = "http" /\ lastResp.code = 429) =>
        /\ pc = "sleeping"
        /\ lastWait = ClaimedRetryMs(lastResp.errorData)
        /\ wakeAt = now + ClaimedRetryMs(lastResp.errorData)

\* the ceiling of the polling loop's variant with maxWaitTime
MaxWaitTime == 600000

\* C10: the polling loop does not poll forever: once the ceiling (10 minutes)
\* has elapsed since polling began, no further status fetch is issued.
C10_NoFetchPastCeiling ==
    pc = "fetching" => fetchAt - pollStart < MaxWaitTime

\* C8: an addTemplate call whose remote save fails leaves the in-memory list
\* exactly as it was before the call, whether the template's id was new or
\* already in the list (no other store call ran meanwhile).
C8_FailedAddRestoresList ==
    (lastCall.kind = "addFailed" /\ lastCall.alone /\ ops = <<>>) =>
        templates = lastCall.pre

\* C9: addTemplate with an id that is already in the list is an upsert, so no
\* two templates of the in-memory list ever share an id.
C9_UniqueIds ==
    \A i, j \in DOMAIN templates :
        i # j => templates[i].id # templates[j].id

\* C16: every error path gives the user a way to retry: once a research run has
\* ended in Failed (job failure, empty result, request error), processing is
\* cleared and the message input is offered again (it is rendered in chat mode
\* only).
C16_ErrorPathsAllowRetry ==
    (pc = "idle" /\ outcome = "failed") => (~isProcessing /\ mode = "chat")

\* C17: once a removeTemplate call whose remote delete failed has rejected, the
\* in-memory list equals its pre-call state, whatever the reload that recovers
\* it returned (no other store call ran meanwhile).
C17_FailedRemoveRestoresList ==
    (lastCall.kind = "removeFailed" /\ lastCall.alone /\ ops = <<>>) =>
        templates = lastCall.pre

\* C19: a status fetch that rejects (network failure) or is answered with HTTP
\* 404 is swallowed: the loop waits one interval and fetches again, and no
\* error is surfaced.
C19_TransientFetchErrorsSwallowed ==
    (respOf = "poll" /\ (lastResp.kind = "network"
                          \/ (lastResp.kind = "http" /\ lastResp.code = 404))) =>
        (pc = "sleeping" /\ lastWait = pollInterval /\ outcome = "none")

\* C20: a status fetch answered with an HTTP error other than 404 and 429 (for
\* example 500) ends the loop in Failed; the fetch is not retried.
C20_OtherFetchErrorsFail ==
    (respOf = "poll" /\ lastResp.kind = "http" /\ lastResp.code \notin {404, 429}) =>
        (pc = "idle" /\ outcome = "failed")

\* C11: whenever the polling loop yields question for a status payload, the
\* orchestrator appends the question as an assistant turn, sets mode to chat and
\* sets the waiting flag (so that the next user turn re-enters research).
C11_QuestionShownAndAwaited ==
    (/\ PolledPayload /\ PollStep(lastResp).kind = "return"
     /\ PollStep(lastResp).isQuestion) =>
        /\ outcome = "question" /\ mode = "chat" /\ waitingForResearchAnswer
        /\ messages[Len(messages)].role = "assistant"

\* C12: no assistant turn the form stores contains the readiness marker
\* [READY], whatever the number and position of markers in the chat reply.
C12_NoMarkerStored ==
    \A i \in DOMAIN messages :
        messages[i].role = "assistant" => ~Includes(messages[i].content, "[READY]")

\* C15: after the form is torn down the polling loop issues no further status
\* fetch.
C15_NoFetchAfterTeardown == ~lateFetch

\* C13: with no API key, a user turn and a file upload fail fast: the error is
\* set at once, no chat completion, research request or upload request is
\* issued, and history, mode and the waiting flag are left as they were.
C13_NoKeyFailsFast ==
    [][/\ (turns' = turns + 1 /\ ~apiKey) =>
            /\ error' = NoKeyMessage
            /\ UNCHANGED <<messages, mode, waitingForResearchAnswer, chats>>
            /\ UNCHANGED <<pc, submits, polls, upPc>>
       /\ (uploads' = uploads + 1 /\ ~apiKey) =>
            /\ upError' = NoKeyMessage
            /\ UNCHANGED <<messages, mode, waitingForResearchAnswer, chats>>
            /\ UNCHANGED <<pc, submits, polls, upPc, isProcessingFiles>>
      ]_vars

C13_Witness ==
    /\ ~apiKey /\ lastTurn = "noKey" /\ error = NoKeyMessage
    /\ uploads > 0 /\ upError = NoKeyMessage /\ upPc = "idle" /\ chats = <<>>

\* C14: a 429 answer is never surfaced as an error: in the file upload and attach
\* path it is recovered by waiting and retrying the same request.
C14_RateLimitNeverSurfaced ==
    (upLast.kind = "http" /\ upLast.code = 429) => upError = <<>>

\* C18: once the attach requests have succeeded the readiness wait never throws:
\* no status fetch is issued once the 30 s ceiling has passed, and the wait
\* returns normally, on a status with in_progress = 0 and completed > 0 or once
\* the ceiling has passed.
C18_ReadinessWaitReturns ==
    /\ waitOutcome # "threw"
    /\ upPc = "checking" => upFetchAt - upStart < VsMaxWait
    /\ waitOutcome = "ready" =>
            (upLast.kind = "ok" /\ upLast.inProgress = 0 /\ upLast.completed > 0)
    /\ waitOutcome = "timedOut" => upNow - upStart >= VsMaxWait
    /\ waitOutcome \in {"ready", "timedOut"} =>
            /\ upPc \in {"idle", "extracting"}
            /\ upError = <<>> /\ vectorStoreId
            /\ isProcessingFiles <=> (upPc = "extracting")

C18_Witness ==
    /\ waitOutcome = "timedOut" /\ upPc = "idle" /\ vectorStoreId /\ upError = <<>>
    /\ upLast.kind = "ok" /\ upLast.inProgress = 1
    /\ upNow - upStart >= VsMaxWait

\* C21: a submission response that already resolves to report ends the run with
\* that report: no status fetch is issued after it, with or without a job id.
C21_ResolvedSubmissionSkipsPolling ==
    pc = "fetching" => submitKind # "report"

\* C26: the submission is retried once: a 429 that answers the second submission
\* request of a run is reported as an error, with or without a retry-after hint.
C26_SubmissionRetriedOnce ==
    (/\ respOf = "submit" /\ submits >= 2
     /\ lastResp.kind = "http" /\ lastResp.code = 429) =>
        (pc = "idle" /\ outcome = "failed")

\* the questionText the run returned for the text of an output item, else empty
ItemQuestionText ==
    IF lastResp.kind # "ok" \/ ~lastResp.body.output.present THEN <<>>
    ELSE IF respOf = "poll"
    THEN LET r == PollStep(lastResp) IN
         IF /\ r.kind = "return" /\ r.isQuestion
            /\ r.questionText = FirstQuestion(lastResp.body.output.items)
         THEN r.questionText ELSE <<>>
    ELSE IF respOf = "submit"
    THEN LET r == SubmitStep(lastResp) IN
         IF /\ r.kind = "return" /\ r.isQuestion
            /\ r.questionText = SubmitQuestion(lastResp.body.output.items)
            /\ r.questionText # lastResp.body.output_text
         THEN r.questionText ELSE <<>>
    ELSE <<>>

\* C29: when a payload is classified as a question because of the text T of an
\* output item, the run ends as question and the assistant turn appended to the
\* conversation has content exactly T.
C29_ClassifiedQuestionIsShown ==
    ItemQuestionText # <<>> =>
        /\ outcome = "question"
        /\ LastContent(messages) = ItemQuestionText

\* C22: a job that reports status 'completed' with no extractable text is retried
\* only briefly: whatever the shape of the payload, the run ends, after finitely
\* many retries, with the empty-result error.
C22_EmptyCompletedEndsWithError ==
    PolledPayload ~> (pc = "idle" /\ outcome = "failed" /\ error = EmptyResultMessage)

\* C25: all uploads are started together; no attach request is issued before
\* every upload has succeeded; attach requests are issued one at a time, in the
\* order of the input files whatever the order in which the uploads completed;
\* after a failed upload no attach request is issued and the error is shown.
C25_UploadsThenOrderedAttach ==
    /\ upPc = "uploading" =>
            (upPending \cup {upOrder[j] : j \in DOMAIN upOrder}) = 1..upFiles
    /\ attachReqs # <<>> => (upPending = {} /\ Len(upOrder) = upFiles)
    /\ \A j \in DOMAIN attachReqs : attachReqs[j] = j
    /\ Len(attachReqs) <= upDone + 1
    /\ (upPc = "idle" /\ upFiles > 0 /\ Len(upOrder) < upFiles) =>
            (attachReqs = <<>> /\ upError # <<>>)

C25_Witness ==
    /\ upFiles = 2 /\ upOrder = <<2, 1>> /\ attachReqs = <<1, 2>> /\ upDone = 2

Greatest(ids) == CHOOSE i \in ids : \A j \in ids : j <= i

\* the ids held by a list
IdsOf(list) == {list[i] : i \in DOMAIN list}

\* the (at most two) ids created last among those of a list
NewestOf(list) ==
    IF Cardinality(IdsOf(list)) <= RetainedStores THEN IdsOf(list)
    ELSE {Greatest(IdsOf(list)), Greatest(IdsOf(list) \ {Greatest(IdsOf(list))})}

\* a call of the form's handleFileUpload ends in its catch block
BatchFails ==
    \E b \in DOMAIN batches :
        batches[b].stage # "failed" /\ batches'[b].stage = "failed"

RemoteIds == {i \in TemplateIds : remote[i] # ""}

\* C28: when every remote operation has succeeded and every call has completed,
\* the ids of the in-memory list are the ids of the remote collection.
C28_ListMatchesRemote ==
    (ops = <<>> /\ ~rejected) =>
        {templates[i].id : i \in DOMAIN templates} = RemoteIds

\* the remote operations of the form on screen that have been issued and not
\* answered: chat completions, and the submission or status fetch of its runs
InFlight ==
    Cardinality({i \in DOMAIN chats : chats[i].live})
    + Cardinality({i \in DOMAIN others :
                      others[i].live /\ others[i].pc \in {"submitting", "fetching"}})
    + (IF mounted /\ pc \in {"submitting", "fetching"} THEN 1 ELSE 0)

\* C24: for every interleaving of user turns (send button, Enter key, auto-send)
\* and request completions, at most one remote operation of the session is in
\* flight: a second turn cannot start a request while an earlier one is processed
C24_OneOperationInFlight == InFlight <= 1

\* a research run of the form on screen is in progress
RunInProgress == (mounted /\ pc # "idle") \/ \E i \in DOMAIN others : others[i].live

\* C30: the waiting-for-research-answer flag is set only while mode is chat and
\* no research run is in progress
C30_WaitingOnlyInIdleChat ==
    (mounted /\ waitingForResearchAnswer) => (mode = "chat" /\ ~RunInProgress)

\* the step on which a research run of the form on screen ends in failed: the
\* run that pc follows, or one of the others
RunFails == mounted /\ pc # "idle" /\ pc' = "idle" /\ outcome' = "failed"
OtherRunFails ==
    Len(others') < Len(others) /\ otherEnd'.live /\ otherEnd'.outcome = "failed"

\* the answer that ended the run is a payload with status 'failed'
FailedPayload(resp) == resp.kind = "ok" /\ resp.body.status = "failed"

\* what a failed run leaves in the session, resp being the answer that ended it
FailureShown(resp) ==
    /\ error' # <<>>
    /\ FailedPayload(resp) => error' = FailureMessage(resp.body)
    /\ resp.kind = "http" =>
            error' = IF resp.errorData.message # <<>>
                     THEN resp.errorData.message
                     ELSE <<"Failed to run deep research">>
    /\ messages' = messages
    /\ researchResult' = <<>>
    /\ waitingForResearchAnswer' = waitingForResearchAnswer
    /\ mode' = mode

\* C23: when a research run ends in failed, the displayed error becomes the
\* failure's message, the conversation history is left unchanged, no research
\* result is stored and the waiting-for-research-answer flag is not set
C23_FailureOnlySetsError ==
    [][/\ RunFails => FailureShown(lastResp')
       /\ OtherRunFails => FailureShown(otherEnd'.resp)]_vars

\* a run started from a conversation of two turns after a stored question has
\* failed with the message the service gave
C23_Witness ==
    /\ mounted /\ pc = "idle" /\ outcome = "failed" /\ FailedPayload(lastResp)
    /\ error = <<"Model error">> /\ researchResult = <<>>
    /\ Len(messages) >= 3 /\ ~waitingForResearchAnswer

====
